---- MODULE Spec2Model ----
(***************************************************************************)
(* Model of fastly_vcl_ngwaf_checker_ver3_client_challenge_check.py: the   *)
(* audit of the services of one account (enumeration by pages, resolution  *)
(* of the active version, snippet check, client-challenge scan, two        *)
(* report files).  The remote API is the environment: every request draws  *)
(* its HTTP outcome from a bounded set.                                    *)
(*                                                                         *)
(* Python values are tagged records: None is [t |-> "null"], a number is   *)
(* [t |-> "num", v |-> n], a dict [t |-> "dict", v |-> record], a list     *)
(* [t |-> "list", v |-> sequence], a str [t |-> "str", v |-> sequence of   *)
(* symbols].  A symbol stands for one word, one whitespace character or    *)
(* one punctuation character of the text.                                  *)
(***************************************************************************)
EXTENDS Integers, Sequences, FiniteSets, TLC

VARIABLES
    accountSize,    \* remote: number of services of the account
    withId,         \* remote: positions of the services that carry an id
    pc,             \* position of main
    page,           \* get_services: page
    all_services,   \* get_services: all_services; main: services
    fileIdx,        \* main: position in [report_file, fixed_report_file]
    idx,            \* main: position of the for loop over services
    service_name,   \* main: service_name
    active_version, \* main: active_version
    waf_status,     \* main: waf_status
    report,         \* content of the two report files (rows after the header)
    written,        \* which report files were opened for writing
    log,            \* history: the requests issued, in order
    last_out,       \* history: the HTTP outcome of the last request
    page_failed,    \* history: get_services stopped at a failed page request
    arg,            \* input of the function under test (function specifications)
    ret             \* its result

vars == <<accountSize, withId, pc, page, all_services, fileIdx, idx,
          service_name, active_version, waf_status, report, written, log,
          last_out, page_failed, arg, ret>>

----------------------------------------------------------------------------
(* Bounds of the model *)

\* largest account whose services may all carry an id
MaxServices == 1
\* longest listing of named units drawn in the function specifications
MaxUnits == 2

(* Program constants *)

PageSize == 100
total_expected == 468

----------------------------------------------------------------------------
(* Python values *)

None == [t |-> "null"]
Num(n) == [t |-> "num", v |-> n]
Str(s) == [t |-> "str", v |-> s]
List(s) == [t |-> "list", v |-> s]
Dict(r) == [t |-> "dict", v |-> r]
EmptyDict == Dict([k \in {} |-> None])

IsDict(x) == x.t = "dict"
IsList(x) == x.t = "list"
IsStr(x) == x.t = "str"

\* bool(x)
Truthy(x) ==
    CASE x.t = "null" -> FALSE
      [] x.t = "num" -> x.v # 0
      [] x.t = "str" -> Len(x.v) > 0
      [] x.t = "list" -> Len(x.v) > 0
      [] x.t = "dict" -> DOMAIN x.v # {}
      [] OTHER -> TRUE

\* d.get(key, default)
Get(d, key, default) == IF key \in DOMAIN d.v THEN d.v[key] ELSE default

\* str(x) of None or of a number, as a text of one symbol
PyStr(x) ==
    CASE x.t = "null" -> <<"None">>
      [] x.t = "num" -> <<ToString(x.v)>>
      [] x.t = "str" -> x.v
      [] OTHER -> <<ToString(x)>>

----------------------------------------------------------------------------
(* Transport *)

ConnectionError == [kind |-> "fail"]
Http(code, body) == [kind |-> "http", code |-> code, body |-> body]

\* make_api_request: (payload, status) of one GET; raise_for_status raises for
\* 400 <= code < 600 and the handler returns (None, code); a request with no
\* response returns (None, None).  Every body drawn is a JSON document.
make_api_request(out) ==
    IF out.kind = "fail"
    THEN [data |-> None, status |-> None]
    ELSE IF out.code >= 400 /\ out.code < 600
         THEN [data |-> None, status |-> Num(out.code)]
         ELSE [data |-> out.body, status |-> Num(out.code)]

\* one entry of the request history
Req(ep, sid, ver, pg, pass) ==
    [ep |-> ep, sid |-> sid, ver |-> ver, page |-> pg, pass |-> pass]

\* the endpoint of a request: its path, whatever the pass
Endpoint(e) == [ep |-> e.ep, sid |-> e.sid, ver |-> e.ver, page |-> e.page]

----------------------------------------------------------------------------
(* Service Resolver *)

UnnamedService == Str(<<"Unnamed Service">>)

version_number_plain_str(av) ==
    IF IsDict(av)
    THEN PyStr(Get(av, "number", Str(<<"None">>)))
    ELSE PyStr(av)

\* the version string of a successful lookup (line 68)
version_number(av) ==
    IF IsDict(av)
    THEN PyStr(Get(av, "number", Str(<<"None">>)))
    ELSE IF Truthy(av) THEN PyStr(av) ELSE <<"None">>

get_service_details_no_check(r) ==
    IF IsDict(r.data)
    THEN [raised |-> FALSE,
          name |-> Get(r.data, "name", UnnamedService),
          active_version |-> version_number(Get(r.data, "active_version", EmptyDict))]
    ELSE [raised |-> FALSE, name |-> UnnamedService, active_version |-> <<"None">>]

\* get_service_details on the transport's result r; raised: details.get on a
\* payload that is no dict raises AttributeError
get_service_details(r) ==
    IF Truthy(r.data) /\ r.status = Num(200)
    THEN IF IsDict(r.data)
         THEN [raised |-> FALSE,
               name |-> Get(r.data, "name", UnnamedService),
               active_version |->
                   version_number(Get(r.data, "active_version", EmptyDict))]
         ELSE [raised |-> TRUE, name |-> None, active_version |-> <<>>]
    ELSE [raised |-> FALSE, name |-> UnnamedService, active_version |-> <<"Unknown">>]

IsKnown_no_unknown(v) == Len(v) > 0 /\ v # <<"None">>

\* main, line 168: the version is a known one
IsKnown(v) == Len(v) > 0 /\ v # <<"None">> /\ v # <<"Unknown">>

----------------------------------------------------------------------------
(* Compliance Scanner: snippet *)

\* the markers of lines 78 and 80 (U+2705, U+274C), by their Unicode names
Present == <<"WHITE HEAVY CHECK MARK">>
Absent == <<"CROSS MARK">>
NoActiveVersion == <<"No active version">>

\* the f-string of line 82, its parts in order
ErrorText(r) ==
    <<"Error: ", IF Truthy(r.data) THEN ToString(r.data) ELSE "Unknown",
      " (Status: ", PyStr(r.status)[1], ")">>

check_snippet_error_absent(r) ==
    IF r.status = Num(200) THEN Present ELSE Absent

check_snippet(r) ==
    IF r.status = Num(200) THEN Present
    ELSE IF r.status = Num(404) THEN Absent
    ELSE ErrorText(r)

----------------------------------------------------------------------------
(* Compliance Scanner: the content test *)

exact_match ==
    <<"pragma", " ", "optional_param", " ", "client_challenge_enabled", " ",
      "true", ";">>

\* the words of the pattern, separated in it by \s+
PatternWords == <<"pragma", "optional_param", "client_challenge_enabled", "true">>

\* \s
IsSpace(c) == c \in {" ", "\t", "\n"}

\* re.IGNORECASE
Lower(c) ==
    CASE c = "PRAGMA" -> "pragma"
      [] c = "Pragma" -> "pragma"
      [] c = "TRUE" -> "true"
      [] c = "True" -> "true"
      [] c = "OPTIONAL_PARAM" -> "optional_param"
      [] c = "CLIENT_CHALLENGE_ENABLED" -> "client_challenge_enabled"
      [] OTHER -> c

\* the symbol c ends with the word w, starts with the word w: a match may
\* begin and end inside a word of the text
EndsWith(c, w) == c = w \/ (w = "pragma" /\ c = "xpragma")
StartsWith(c, w) == c = w \/ (w = "true" /\ c = "trueish")

\* needle in text (str.__contains__)
Contains(text, needle) ==
    \E i \in 1..(Len(text) - Len(needle) + 1) :
        \A k \in 1..Len(needle) :
            IF k = 1 THEN EndsWith(text[i], needle[1])
            ELSE IF k = Len(needle) THEN StartsWith(text[i + k - 1], needle[k])
            ELSE text[i + k - 1] = needle[k]

RECURSIVE SkipSpace(_, _)
\* the first position from i on that holds no whitespace
SkipSpace(text, i) ==
    IF i <= Len(text) /\ IsSpace(text[i]) THEN SkipSpace(text, i + 1) ELSE i

\* the k-th word of the pattern matches the symbol c
WordMatches(c, k) ==
    IF k = 1 THEN EndsWith(Lower(c), PatternWords[1])
    ELSE IF k = Len(PatternWords) THEN StartsWith(Lower(c), PatternWords[k])
    ELSE Lower(c) = PatternWords[k]

RECURSIVE MatchFrom_one_space(_, _, _)
MatchFrom_one_space(text, i, k) ==
    /\ i <= Len(text)
    /\ WordMatches(text[i], k)
    /\ \/ k = Len(PatternWords)
       \/ /\ i + 1 <= Len(text)
          /\ IsSpace(text[i + 1])
          /\ MatchFrom_one_space(text, i + 2, k + 1)

RECURSIVE MatchFrom(_, _, _)
\* the pattern from its k-th word on matches text at position i; past the
\* last word the pattern is \s*(?:;)?, which matches the empty text
MatchFrom(text, i, k) ==
    /\ i <= Len(text)
    /\ WordMatches(text[i], k)
    /\ \/ k = Len(PatternWords)
       \/ /\ i + 1 <= Len(text)
          /\ IsSpace(text[i + 1])
          /\ MatchFrom(text, SkipSpace(text, i + 1), k + 1)

\* re.search(pattern, text, re.IGNORECASE)
re_search(text) == \E i \in 1..Len(text) : MatchFrom(text, i, 1)

\* exact_match as the key of a mapping
ExactKey == "pragma optional_param client_challenge_enabled true;"

\* lines 98-105 and 116-123 on one content: "match", "nomatch", or "raise"
\* (TypeError: a content that is no str; a list or a mapping passes the
\* membership test of line 98, which one of its items or keys decides, and
\* raises in re.search)
ScanContent(content) ==
    CASE IsStr(content) ->
            IF Contains(content.v, exact_match) \/ re_search(content.v)
            THEN "match" ELSE "nomatch"
      [] IsList(content) ->
            IF \E i \in 1..Len(content.v) : content.v[i] = Str(exact_match)
            THEN "match" ELSE "raise"
      [] IsDict(content) ->
            IF ExactKey \in DOMAIN content.v THEN "match" ELSE "raise"
      [] OTHER -> "raise"

RECURSIVE ScanUnits(_, _)
\* the for loop of lines 96-105 from unit i on: the first unit that matches
\* or raises decides; vcl.get on a unit that is no dict raises AttributeError
ScanUnits(units, i) ==
    IF i > Len(units) THEN "nomatch"
    ELSE IF ~IsDict(units[i]) THEN "raise"
    ELSE LET res == ScanContent(Get(units[i], "content", Str(<<>>)))
         IN IF res = "nomatch" THEN ScanUnits(units, i + 1) ELSE res

\* the listing tier (lines 91-109) on the transport's result
ScanListing(r) ==
    IF r.status = Num(200) /\ IsList(r.data) THEN ScanUnits(r.data.v, 1) ELSE "nomatch"

\* the compiled tier (lines 113-127) on the transport's result
ScanGenerated(r) ==
    IF r.status = Num(200) /\ IsDict(r.data)
    THEN ScanContent(Get(r.data, "content", Str(<<>>)))
    ELSE "nomatch"

\* check_client_challenge on the results of its two requests: "True", "False"
\* or "raise"; the compiled blob is requested only after a listing tier that
\* returned no match
check_client_challenge(rl, rg) ==
    LET first == ScanListing(rl)
    IN IF first = "match" THEN "True"
       ELSE IF first = "raise" THEN "raise"
       ELSE LET second == ScanGenerated(rg)
            IN IF second = "match" THEN "True"
               ELSE IF second = "raise" THEN "raise" ELSE "False"

----------------------------------------------------------------------------
(* The remote account and the outcomes a request can have *)

\* the i-th service of the account, as the listing returns it
Service(i) ==
    IF i \in withId
    THEN Dict([id |-> Num(i), type |-> Str(<<"vcl">>)])
    ELSE Dict([type |-> Str(<<"vcl">>)])

Min(a, b) == IF a < b THEN a ELSE b

\* the items of page p of the listing, page[size]=100
PageItems(p) ==
    LET first == (p - 1) * PageSize
        n == IF accountSize > first THEN Min(PageSize, accountSize - first) ELSE 0
    IN [k \in 1..n |-> Service(first + k)]

\* every service of the account, in listing order
AccountServices == [i \in 1..accountSize |-> Service(i)]

\* the accounts drawn: the small ones with every choice of the services that
\* carry an id, one account of three services whose second has no id, and
\* accounts of one page and more whose first service alone carries an id
Accounts ==
    {[size |-> n, ids |-> S] : n \in 0..MaxServices, S \in SUBSET (1..MaxServices)}
    \cup {[size |-> 3, ids |-> {1, 3}]}
    \cup {[size |-> n, ids |-> {1}] :
            n \in {PageSize, PageSize + 1, total_expected,
                   5 * PageSize, 5 * PageSize + 1}}

PageOutcomes(p) ==
    {ConnectionError,
     Http(500, None),
     Http(202, List(PageItems(p))),
     Http(200, List(PageItems(p))),
     Http(200, Dict([data |-> List(PageItems(p))])),
     Http(200, Dict([data |-> None]))}

ServiceName == Str(<<"svc">>)

DetailsOutcomes ==
    {ConnectionError,
     Http(404, None),
     Http(202, Dict([name |-> ServiceName, active_version |-> Num(3)])),
     Http(200, Dict([name |-> ServiceName,
                     active_version |-> Dict([number |-> Num(3)])])),
     Http(200, Dict([name |-> ServiceName, active_version |-> None]))}

SnippetOutcomes ==
    {Http(200, Dict([name |-> Str(<<"ngwaf_config_init">>)])),
     Http(404, None),
     Http(500, None)}

ExactText == Str(<<"sub", " ", "vcl_recv", "\n">> \o exact_match)
LooseText ==
    Str(<<"PRAGMA", " ", " ", "optional_param", "\t", "client_challenge_enabled",
          "\n", "TRUE">>)
OtherText == Str(<<"sub", " ", "vcl_recv">>)

Unit(content) == Dict([name |-> Str(<<"main">>), content |-> content])

ListingOutcomes ==
    {ConnectionError,
     Http(200, List(<<>>)),
     Http(200, Dict([msg |-> Str(<<"ok">>)])),
     Http(200, List(<<Unit(OtherText)>>)),
     Http(200, List(<<Unit(OtherText), Unit(ExactText)>>)),
     Http(200, List(<<Unit(None)>>))}

GeneratedOutcomes ==
    {ConnectionError,
     Http(200, List(<<>>)),
     Http(200, Dict([content |-> OtherText])),
     Http(200, Dict([content |-> LooseText])),
     Http(200, Dict([content |-> None]))}

----------------------------------------------------------------------------
(* State *)

\* a row of the report of an earlier run, in the fixed-name file
OldRow ==
    [name |-> Str(<<"old">>), id |-> Num(0), version |-> <<"1">>,
     waf |-> Present, challenge |-> "False"]

Init ==
    /\ \E a \in Accounts :
          /\ accountSize = a.size
          /\ withId = a.ids \cap (1..a.size)
    /\ pc = "get_services"
    /\ page = 1
    /\ all_services = <<>>
    /\ fileIdx = 0
    /\ idx = 0
    /\ service_name = None
    /\ active_version = <<>>
    /\ waf_status = <<>>
    /\ report = <<<<>>, <<OldRow>>>>
    /\ written = <<FALSE, FALSE>>
    /\ log = <<>>
    /\ last_out = None
    /\ page_failed = FALSE
    /\ arg = None
    /\ ret = None

----------------------------------------------------------------------------
(* get_services *)

\* line 50: the page request failed
RequestFailed(r) == ~Truthy(r.data) \/ r.status # Num(200)

\* line 53: the sequence itself, or the data field of a mapping
Normalize(services) ==
    IF IsDict(services) THEN Get(services, "data", List(<<>>)) ELSE services

Extend_overwrite(all, data) == data.v

\* line 54: all_services.extend(data)
Extend(all, data) == all \o data.v

IsLastPage_never(data) == FALSE

\* line 56: fewer items than the page size
IsLastPage(data) == Len(data.v) < PageSize

KeepGoing_always(all) == TRUE

\* line 47: the test of the while loop
KeepGoing(all) == Len(all) < total_expected

\* one iteration of the while loop of lines 47-58 on the outcome out of its
\* request, and the test of line 47 that follows it; extend raises TypeError
\* on a data field that is no list
FetchPageOn(out) ==
    /\ pc = "get_services"
    /\ LET r == make_api_request(out)
           data == Normalize(r.data)
       IN /\ log' = Append(log, Req("services", None, <<>>, page, 0))
          /\ last_out' = out
          /\ page_failed' = (r.data = None \/ r.status # Num(200))
          /\ IF RequestFailed(r)
             THEN /\ pc' = "main"
                  /\ UNCHANGED <<page, all_services>>
             ELSE IF ~IsList(data)
             THEN /\ pc' = "raised"
                  /\ UNCHANGED <<page, all_services>>
             ELSE /\ all_services' = Extend(all_services, data)
                  /\ IF IsLastPage(data)
                     THEN /\ pc' = "main"
                          /\ page' = page
                     ELSE /\ page' = page + 1
                          /\ pc' = IF KeepGoing(all_services')
                                   THEN "get_services" ELSE "main"
    /\ UNCHANGED <<accountSize, withId, fileIdx, idx, service_name,
                   active_version, waf_status, report, written, arg, ret>>

\* get_services against a remote that may answer a page request in any way
FetchPage == \E out \in PageOutcomes(page) : FetchPageOn(out)

----------------------------------------------------------------------------
(* main *)

\* service.get("id") of the service at position i
ServiceId(i) == Get(all_services[i], "id", None)

\* the first position from i on whose service has an id, or the end
NextWithId(i) ==
    LET S == {j \in i..Len(all_services) : Truthy(ServiceId(j))}
    IN IF S = {} THEN Len(all_services) + 1
       ELSE CHOOSE j \in S : \A k \in S : j <= k

Row(name, id, version, waf, challenge) ==
    [name |-> name, id |-> id, version |-> version, waf |-> waf,
     challenge |-> challenge]

WriteRow_dropped(challenge) == report[fileIdx]

\* writer.writerow of line 174 into the file that is open
WriteRow(challenge) ==
    Append(report[fileIdx],
           Row(service_name, ServiceId(idx), active_version, waf_status, challenge))

NoServices_never(services) == FALSE

\* line 138: not services
NoServices(services) == ~Truthy(List(services))

OpenForAppending(rows) == rows

\* line 148: open(filename, "w") leaves the file without a row
OpenForWriting(rows) == <<>>

\* lines 137-150: the services are enumerated; nothing is written without one
StartReports ==
    /\ pc = "main"
    /\ IF NoServices(all_services)
       THEN /\ pc' = "done"
            /\ UNCHANGED <<fileIdx, idx, report, written>>
       ELSE /\ pc' = "loop"
            /\ fileIdx' = 1
            /\ idx' = 1
            /\ report' = [report EXCEPT ![1] = OpenForWriting(@)]
            /\ written' = [written EXCEPT ![1] = TRUE]
    /\ UNCHANGED <<accountSize, withId, page, all_services, service_name,
                   active_version, waf_status, log, last_out, page_failed,
                   arg, ret>>

\* lines 152-156: the services without an id from the current one on are
\* passed over, with no request and no row
SkipServices ==
    /\ pc = "loop"
    /\ idx <= Len(all_services)
    /\ ~Truthy(ServiceId(idx))
    /\ idx' = NextWithId(idx)
    /\ UNCHANGED <<accountSize, withId, pc, page, all_services, fileIdx,
                   service_name, active_version, waf_status, report, written,
                   log, last_out, page_failed,
                   arg, ret>>

\* lines 158-168 (and 172-174 when the version is not a known one): the
\* details of the current service, on the outcome out of the request
GetServiceDetailsOn(out) ==
    /\ pc = "loop"
    /\ idx <= Len(all_services)
    /\ Truthy(ServiceId(idx))
    /\ LET d == get_service_details(make_api_request(out))
       IN /\ log' = Append(log, Req("details", ServiceId(idx), <<>>, 0, fileIdx))
          /\ last_out' = out
          /\ IF d.raised
             THEN /\ pc' = "raised"
                  /\ UNCHANGED <<service_name, active_version, waf_status,
                                 report, idx>>
             ELSE /\ service_name' = d.name
                  /\ active_version' = d.active_version
                  /\ waf_status' = NoActiveVersion
                  /\ IF IsKnown(d.active_version)
                     THEN /\ pc' = "snippet"
                          /\ UNCHANGED <<report, idx>>
                     ELSE /\ pc' = "loop"
                          /\ report' = [report EXCEPT ![fileIdx] =
                                Append(@, Row(d.name, ServiceId(idx),
                                              d.active_version, NoActiveVersion,
                                              "False"))]
                          /\ idx' = idx + 1
    /\ UNCHANGED <<accountSize, withId, page, all_services, fileIdx, written,
                   page_failed,
                   arg, ret>>

GetServiceDetails == \E out \in DetailsOutcomes : GetServiceDetailsOn(out)

\* line 169: check_snippet, on the outcome out of its request
CheckSnippetOn(out) ==
    /\ pc = "snippet"
    /\ waf_status' = check_snippet(make_api_request(out))
    /\ last_out' = out
    /\ log' = Append(log, Req("snippet", ServiceId(idx), active_version, 0,
                              fileIdx))
    /\ pc' = "vcl"
    /\ UNCHANGED <<accountSize, withId, page, all_services, fileIdx, idx,
                   service_name, active_version, report, written, page_failed,
                   arg, ret>>

CheckSnippet == \E out \in SnippetOutcomes : CheckSnippetOn(out)

\* line 170, check_client_challenge to line 109: the listing tier, on the
\* outcome out of its request
CheckChallengeListingOn(out) ==
    /\ pc = "vcl"
    /\ LET res == ScanListing(make_api_request(out))
       IN /\ log' = Append(log, Req("vcl", ServiceId(idx), active_version, 0,
                                    fileIdx))
          /\ last_out' = out
          /\ CASE res = "match" ->
                     /\ report' = [report EXCEPT ![fileIdx] = WriteRow("True")]
                     /\ idx' = idx + 1
                     /\ pc' = "loop"
               [] res = "raise" ->
                     /\ pc' = "raised"
                     /\ UNCHANGED <<report, idx>>
               [] OTHER ->
                     /\ pc' = "generated"
                     /\ UNCHANGED <<report, idx>>
    /\ UNCHANGED <<accountSize, withId, page, all_services, fileIdx,
                   service_name, active_version, waf_status, written, page_failed,
                   arg, ret>>

CheckChallengeListing == \E out \in ListingOutcomes : CheckChallengeListingOn(out)

\* check_client_challenge from line 111 on: the compiled tier on the outcome
\* out of its request, then the row
CheckChallengeGeneratedOn(out) ==
    /\ pc = "generated"
    /\ LET res == ScanGenerated(make_api_request(out))
       IN /\ log' = Append(log, Req("generated_vcl", ServiceId(idx),
                                    active_version, 0, fileIdx))
          /\ last_out' = out
          /\ IF res = "raise"
             THEN /\ pc' = "raised"
                  /\ UNCHANGED <<report, idx>>
             ELSE /\ report' = [report EXCEPT ![fileIdx] =
                        WriteRow(IF res = "match" THEN "True" ELSE "False")]
                  /\ idx' = idx + 1
                  /\ pc' = "loop"
    /\ UNCHANGED <<accountSize, withId, page, all_services, fileIdx,
                   service_name, active_version, waf_status, written, page_failed,
                   arg, ret>>

CheckChallengeGenerated ==
    \E out \in GeneratedOutcomes : CheckChallengeGeneratedOn(out)

\* lines 147-148 for the second file: the first is closed, the loop over the
\* services starts again
NextReport ==
    /\ pc = "loop"
    /\ idx > Len(all_services)
    /\ fileIdx = 1
    /\ fileIdx' = 2
    /\ idx' = 1
    /\ report' = [report EXCEPT ![2] = OpenForWriting(@)]
    /\ written' = [written EXCEPT ![2] = TRUE]
    /\ UNCHANGED <<accountSize, withId, pc, page, all_services, service_name,
                   active_version, waf_status, log, last_out, page_failed,
                   arg, ret>>

\* lines 176-177: both files are written
Finish ==
    /\ pc = "loop"
    /\ idx > Len(all_services)
    /\ fileIdx = 2
    /\ pc' = "done"
    /\ UNCHANGED <<accountSize, withId, page, all_services, fileIdx, idx,
                   service_name, active_version, waf_status, report, written,
                   log, last_out, page_failed,
                   arg, ret>>

Next ==
    \/ FetchPage
    \/ StartReports
    \/ SkipServices
    \/ GetServiceDetails
    \/ CheckSnippet
    \/ CheckChallengeListing
    \/ CheckChallengeGenerated
    \/ NextReport
    \/ Finish

Spec == Init /\ [][Next]_vars

\* main is single-threaded and every request returns: while get_services is
\* in its loop, the next iteration is taken
FairSpec == Init /\ [][Next]_vars /\ WF_vars(FetchPage)

----------------------------------------------------------------------------
(* The functions of the scanner on their own: the input is drawn, the      *)
(* function is applied once.                                               *)

\* main is not running
Idle ==
    /\ accountSize = 0
    /\ withId = {}
    /\ page = 1
    /\ all_services = <<>>
    /\ fileIdx = 0
    /\ idx = 0
    /\ service_name = None
    /\ active_version = <<>>
    /\ waf_status = <<>>
    /\ report = <<<<>>, <<OldRow>>>>
    /\ written = <<FALSE, FALSE>>
    /\ log = <<>>
    /\ last_out = None
    /\ page_failed = FALSE

StatusCodes == {200, 201, 202, 301, 304, 400, 401, 403, 404, 410, 429, 500, 502, 503}

Bodies ==
    {None,
     List(<<>>),
     Dict([name |-> Str(<<"ngwaf_config_init">>)]),
     Dict([msg |-> Str(<<"Record not found">>)])}

\* the outcomes of the snippet lookup
SnippetInputs ==
    {ConnectionError} \cup {Http(c, b) : c \in StatusCodes, b \in Bodies}

InitSnippet ==
    /\ Idle
    /\ pc = "check_snippet"
    /\ arg \in SnippetInputs
    /\ ret = None

\* check_snippet, lines 75-82
CallCheckSnippet ==
    /\ pc = "check_snippet"
    /\ ret' = check_snippet(make_api_request(arg))
    /\ pc' = "returned"
    /\ UNCHANGED <<accountSize, withId, page, all_services, fileIdx, idx,
                   service_name, active_version, waf_status, report, written,
                   log, last_out, page_failed, arg>>

NextSnippet == CallCheckSnippet

SpecSnippet == InitSnippet /\ [][NextSnippet]_vars

\* the items a listing can hold: units with a content, a unit without one,
\* a unit whose content is null, an item that is no mapping
ListingItems ==
    {Unit(ExactText), Unit(LooseText), Unit(OtherText),
     Dict([name |-> Str(<<"main">>)]), Unit(None), Str(<<"main">>)}

Listings ==
    UNION {[1..n -> ListingItems] : n \in 0..MaxUnits}

\* the outcomes of the listing request
ListingInputs ==
    {ConnectionError, Http(404, None), Http(200, None),
     Http(200, Dict([msg |-> Str(<<"ok">>)]))}
    \cup {Http(200, List(l)) : l \in Listings}

\* the outcomes of the compiled-blob request
GeneratedInputs ==
    {ConnectionError, Http(503, None), Http(200, List(<<>>)),
     Http(200, Dict([msg |-> Str(<<"ok">>)]))}
    \cup {Http(200, Dict([content |-> c])) :
            c \in {ExactText, LooseText, OtherText, None}}

InitChallenge ==
    /\ Idle
    /\ pc = "check_client_challenge"
    /\ arg \in ListingInputs \X GeneratedInputs
    /\ ret = None

\* check_client_challenge, lines 86-130
CallCheckClientChallenge ==
    /\ pc = "check_client_challenge"
    /\ ret' = check_client_challenge(make_api_request(arg[1]),
                                     make_api_request(arg[2]))
    /\ pc' = "returned"
    /\ UNCHANGED <<accountSize, withId, page, all_services, fileIdx, idx,
                   service_name, active_version, waf_status, report, written,
                   log, last_out, page_failed, arg>>

NextChallenge == CallCheckClientChallenge

SpecChallenge == InitChallenge /\ [][NextChallenge]_vars

\* the texts drawn for the content test: a prefix, four words with a gap
\* after each of the first three, and a tail
Words1 == {"pragma", "PRAGMA", "xpragma", "sub"}
Words2 == {"optional_param", "OPTIONAL_PARAM", "sub"}
Words3 == {"client_challenge_enabled", "sub"}
Words4 == {"true", "TRUE", "trueish", "false"}
Gaps == {<<>>, <<" ">>, <<" ", "\n">>, <<"\t">>, <<";">>}
Prefixes == {<<>>, <<"sub", " ", "vcl_recv", "\n">>}
Tails == {<<>>, <<";">>, <<" ", ";", "\n">>}

ContentInputs ==
    {Str(p \o <<w1>> \o g1 \o <<w2>> \o g2 \o <<w3>> \o g3 \o <<w4>> \o t) :
        p \in Prefixes, w1 \in Words1, g1 \in Gaps, w2 \in Words2, g2 \in Gaps,
        w3 \in Words3, g3 \in Gaps, w4 \in Words4, t \in Tails}
    \cup {Str(<<>>), OtherText,
          Str(<<"optional_param", " ", "pragma", " ", "client_challenge_enabled",
                " ", "true", ";">>),
          Str(<<"pragma", " ", "optional_param", " ", "sub", " ",
                "client_challenge_enabled", " ", "true", ";">>)}

InitContent ==
    /\ Idle
    /\ pc = "content_test"
    /\ arg \in ContentInputs
    /\ ret = None

\* lines 98-105 on the content arg: the two-step test, and each of its steps
CallContentTest ==
    /\ pc = "content_test"
    /\ ret' = [two_step |-> ScanContent(arg),
               exact |-> Contains(arg.v, exact_match),
               pattern |-> re_search(arg.v)]
    /\ pc' = "returned"
    /\ UNCHANGED <<accountSize, withId, page, all_services, fileIdx, idx,
                   service_name, active_version, waf_status, report, written,
                   log, last_out, page_failed, arg>>

NextContent == CallContentTest

SpecContent == InitContent /\ [][NextContent]_vars

\* the values the active_version field of the details can hold
ActiveVersions ==
    {None, Num(0), Num(3), Str(<<>>), Str(<<"7">>), EmptyDict,
     Dict([number |-> Num(5)]), Dict([number |-> Num(0)]),
     Dict([number |-> None]), Dict([deployed |-> Num(1)])}

\* the payloads of the details lookup: none, an empty one, mappings with and
\* without a name and an active_version field, and sequences
DetailsBodies ==
    {None, EmptyDict, Dict([name |-> ServiceName]), List(<<>>), List(<<Num(1)>>)}
    \cup {Dict([name |-> ServiceName, active_version |-> av]) : av \in ActiveVersions}
    \cup {Dict([active_version |-> av]) : av \in ActiveVersions}

\* the outcomes of the details lookup
DetailsInputs ==
    {ConnectionError} \cup {Http(c, b) : c \in StatusCodes, b \in DetailsBodies}

InitDetails ==
    /\ Idle
    /\ pc = "get_service_details"
    /\ arg \in DetailsInputs
    /\ ret = None

\* get_service_details, lines 64-71
CallGetServiceDetails ==
    /\ pc = "get_service_details"
    /\ ret' = get_service_details(make_api_request(arg))
    /\ pc' = "returned"
    /\ UNCHANGED <<accountSize, withId, page, all_services, fileIdx, idx,
                   service_name, active_version, waf_status, report, written,
                   log, last_out, page_failed, arg>>

NextDetails == CallGetServiceDetails

SpecDetails == InitDetails /\ [][NextDetails]_vars

----------------------------------------------------------------------------
(* main run twice against a remote that answers every request to an        *)
(* endpoint in the same way: arg holds the answer of each endpoint, ret    *)
(* the reports of the first run once the second has started.               *)

\* accounts of less than one page
RepeatAccounts ==
    {[size |-> 0, ids |-> {}], [size |-> 1, ids |-> {1}],
     [size |-> 3, ids |-> {1, 3}]}

InitRepeat ==
    /\ \E a \in RepeatAccounts :
          /\ accountSize = a.size
          /\ withId = a.ids
    /\ pc = "get_services"
    /\ page = 1
    /\ all_services = <<>>
    /\ fileIdx = 0
    /\ idx = 0
    /\ service_name = None
    /\ active_version = <<>>
    /\ waf_status = <<>>
    /\ report = <<<<>>, <<OldRow>>>>
    /\ written = <<FALSE, FALSE>>
    /\ log = <<>>
    /\ last_out = None
    /\ page_failed = FALSE
    /\ arg \in [services : [{1} -> PageOutcomes(1)],
                details : [withId -> DetailsOutcomes],
                snippet : SnippetOutcomes,
                vcl : ListingOutcomes,
                generated_vcl : GeneratedOutcomes]
    /\ ret = None

FetchPageFixed == page \in DOMAIN arg.services /\ FetchPageOn(arg.services[page])

GetServiceDetailsFixed ==
    /\ pc = "loop"
    /\ idx <= Len(all_services)
    /\ idx \in DOMAIN arg.details
    /\ GetServiceDetailsOn(arg.details[idx])

CheckSnippetFixed == CheckSnippetOn(arg.snippet)

CheckChallengeListingFixed == CheckChallengeListingOn(arg.vcl)

CheckChallengeGeneratedFixed == CheckChallengeGeneratedOn(arg.generated_vcl)

\* main is started again after it ended; the report file named after the
\* time of the run is a new one, the fixed-name file is the one left
RunAgain ==
    /\ pc \in {"done", "raised"}
    /\ ret = None
    /\ ret' = [report |-> report, written |-> written]
    /\ pc' = "get_services"
    /\ page' = 1
    /\ all_services' = <<>>
    /\ fileIdx' = 0
    /\ idx' = 0
    /\ service_name' = None
    /\ active_version' = <<>>
    /\ waf_status' = <<>>
    /\ report' = [report EXCEPT ![1] = <<>>]
    /\ written' = <<FALSE, FALSE>>
    /\ log' = <<>>
    /\ last_out' = None
    /\ page_failed' = FALSE
    /\ UNCHANGED <<accountSize, withId, arg>>

NextRepeat ==
    \/ FetchPageFixed
    \/ StartReports
    \/ SkipServices
    \/ GetServiceDetailsFixed
    \/ CheckSnippetFixed
    \/ CheckChallengeListingFixed
    \/ CheckChallengeGeneratedFixed
    \/ NextReport
    \/ Finish
    \/ RunAgain

SpecRepeat == InitRepeat /\ [][NextRepeat]_vars

----------------------------------------------------------------------------
(* Properties *)

HasId(s) == Truthy(Get(s, "id", None))

\* the ids of the enumerated services that have one, in enumeration order
ExpectedIds ==
    LET S == SelectSeq(all_services, HasId)
    IN [k \in 1..Len(S) |-> Get(S[k], "id", None)]

ReportIds(f) == [k \in 1..Len(report[f]) |-> report[f][k].id]

\* main has left the with block of report file f
Closed(f) ==
    /\ written[f]
    /\ \/ pc \in {"done", "raised"}
       \/ f < fileIdx

ScannerEps == {"snippet", "vcl", "generated_vcl"}

\* the requests of the scanner issued while service id was processed for
\* report file f
ScannerRequests(f, id) ==
    {i \in 1..Len(log) : log[i].ep \in ScannerEps /\ log[i].pass = f /\ log[i].sid = id}

\* C1: every report file main has finished with holds exactly one row per
\* enumerated service that has an id, in enumeration order, whatever the
\* outcomes of the lookups were.
C1_OneRowPerService ==
    \A f \in 1..2 : Closed(f) => ReportIds(f) = ExpectedIds

\* C2: a request of the scanner is only issued for a version that is neither
\* "None" nor "Unknown", and a row whose version is "None" or "Unknown" carries
\* the defaults and was built with no request of the scanner.
C2_ScannerOnlyWhenKnown ==
    /\ \A i \in 1..Len(log) :
          log[i].ep \in ScannerEps =>
              log[i].ver \notin {<<>>, <<"None">>, <<"Unknown">>}
    /\ pc \in {"snippet", "vcl", "generated"} =>
          active_version \notin {<<>>, <<"None">>, <<"Unknown">>}
    /\ \A f \in 1..2 : \A k \in 1..Len(report[f]) :
          (written[f] /\ report[f][k].version \in {<<"None">>, <<"Unknown">>}) =>
              /\ report[f][k].waf = NoActiveVersion
              /\ report[f][k].challenge = "False"
              /\ ScannerRequests(f, report[f][k].id) = {}

\* C2, reached: one report holds a row of a service without active version
\* and a row of a service whose known version was scanned.
C2_Witness ==
    /\ pc = "done"
    /\ \E k \in 1..Len(report[2]) :
          /\ report[2][k].version = <<"None">>
          /\ report[2][k].waf = NoActiveVersion
    /\ \E k \in 1..Len(report[2]) :
          /\ report[2][k].version = <<"3">>
          /\ ScannerRequests(2, report[2][k].id) # {}

\* the status code of an HTTP outcome, -1 when there was no response
CodeOf(out) == IF out.kind = "http" THEN out.code ELSE -1

\* C3: check_snippet gives the present marker for status 200, the absent
\* marker for 404, and for every other outcome an error text that holds the
\* status code ("None" when there was no response) and is neither marker.
C3_SnippetThreeWay ==
    pc = "returned" =>
        /\ CodeOf(arg) = 200 => ret = Present
        /\ CodeOf(arg) = 404 => ret = Absent
        /\ CodeOf(arg) \notin {200, 404} =>
              /\ ret \notin {Present, Absent, NoActiveVersion}
              /\ Len(ret) = 5
              /\ ret[1] = "Error: "
              /\ ret[4] = (IF arg.kind = "fail" THEN "None" ELSE ToString(arg.code))

\* C3, reached: a lookup answered 500 gave the error text with 500 in it,
C3_Witness ==
    /\ pc = "returned"
    /\ CodeOf(arg) = 500
    /\ ret[1] = "Error: "
    /\ ret[4] = "500"

\* a content holds the directive
HasDirective(c) == IsStr(c) /\ (Contains(c.v, exact_match) \/ re_search(c.v))

\* the listing was fetched as a list and a unit of it holds the directive
ListingHasDirective(out) ==
    /\ CodeOf(out) = 200
    /\ IsList(out.body)
    /\ \E i \in 1..Len(out.body.v) :
          /\ IsDict(out.body.v[i])
          /\ HasDirective(Get(out.body.v[i], "content", Str(<<>>)))

\* the compiled blob was fetched and holds the directive
GeneratedHasDirective(out) ==
    /\ CodeOf(out) = 200
    /\ IsDict(out.body)
    /\ HasDirective(Get(out.body, "content", Str(<<>>)))

\* C4: check_client_challenge returns True exactly when the listing or the
\* compiled blob holds the directive, and False in every other case.
C4_ChallengeExactlyWhen ==
    pc = "returned" =>
        IF ListingHasDirective(arg[1]) \/ GeneratedHasDirective(arg[2])
        THEN ret = "True"
        ELSE ret = "False"

\* C5: when no page request failed, get_services returns every service of
\* the account, in order.
C5_AllServices ==
    (pc = "main" /\ ~page_failed) => all_services = AccountServices

\* C6: no endpoint is requested twice in one run.
C6_EachEndpointOnce ==
    \A i \in 1..Len(log) : \A j \in 1..Len(log) :
        i < j => Endpoint(log[i]) # Endpoint(log[j])

\* C7: no response to a lookup for a service aborts the run.
C7_NoAbort == ~(pc = "raised" /\ fileIdx >= 1)

IsPageRequest(e) == e.ep = "services"

\* the page requests issued, in order
PageRequests(l) == SelectSeq(l, IsPageRequest)

\* C8: when a page request failed after k pages, get_services has stopped
\* without raising, exactly the pages 1..k+1 were requested, the result is
\* the items of the first k pages in order, and main audits it as it audits
\* a complete list: no report without a service, else both reports with one
\* row per service that has an id.
C8_PartialEnumeration ==
    page_failed =>
        /\ pc # "get_services"
        /\ pc = "raised" => fileIdx >= 1
        /\ all_services = [i \in 1..((page - 1) * PageSize) |-> Service(i)]
        /\ LET reqs == PageRequests(log)
           IN /\ Len(reqs) = page
              /\ \A i \in 1..Len(reqs) : reqs[i].page = i
        /\ pc = "done" =>
              IF all_services = <<>>
              THEN ~written[1] /\ ~written[2]
              ELSE \A f \in 1..2 : written[f] /\ ReportIds(f) = ExpectedIds

\* C8, reached: the third page failed and the two pages fetched were audited.
C8_Witness ==
    /\ page_failed
    /\ page = 3
    /\ Len(all_services) = 2 * PageSize
    /\ pc = "done"
    /\ Len(report[2]) = 1

\* C9: a page request answered with fewer items than the page size adds the
\* items of that page and ends get_services, and no page is requested once
\* get_services has ended.
C9_ShortPageTerminates ==
    [][/\ (/\ pc = "get_services"
           /\ pc' # "raised"
           /\ ~page_failed'
           /\ Len(PageItems(page)) < PageSize)
          => /\ pc' = "main"
             /\ page' = page
             /\ all_services' = all_services \o PageItems(page)
       /\ pc # "get_services" => PageRequests(log') = PageRequests(log)]_vars

\* C9, reached: the second page was short and get_services returned.
C9_Witness ==
    /\ pc = "main"
    /\ ~page_failed
    /\ page = 2
    /\ Len(all_services) = PageSize + 1

\* C10: after a details lookup that failed, name and version are "Unnamed
\* Service" and "Unknown", nothing was raised, the row of the service shows
\* both and the defaults, and no request of the scanner was issued for it.
C10_DetailsFailure ==
    /\ (/\ log # <<>>
        /\ log[Len(log)].ep = "details"
        /\ CodeOf(last_out) # 200)
       => LET e == log[Len(log)]
              rows == report[e.pass]
          IN /\ pc \in {"loop", "done"}
             /\ service_name = UnnamedService
             /\ active_version = <<"Unknown">>
             /\ Len(rows) >= 1
             /\ rows[Len(rows)] =
                   Row(UnnamedService, e.sid, <<"Unknown">>, NoActiveVersion,
                       "False")
    /\ \A f \in 1..2 : \A k \in 1..Len(report[f]) :
          (written[f] /\ report[f][k].version = <<"Unknown">>) =>
              /\ report[f][k].name = UnnamedService
              /\ ScannerRequests(f, report[f][k].id) = {}

\* C10, reached: the details lookup of a service was answered 404 and its
\* row is written.
C10_Witness ==
    /\ log # <<>>
    /\ log[Len(log)].ep = "details"
    /\ CodeOf(last_out) = 404
    /\ pc = "loop"
    /\ Len(report[fileIdx]) >= 1
    /\ report[fileIdx][Len(report[fileIdx])].version = <<"Unknown">>
    /\ report[fileIdx][Len(report[fileIdx])].id = log[Len(log)].sid

\* the error description of line 82
IsErrorText(w) == Len(w) = 5 /\ w[1] = "Error: " /\ w[3] = " (Status: "

\* the rows main has written into report file f
WrittenRows(f) == IF written[f] THEN report[f] ELSE <<>>

C12_SameRows ==
    (ret # None /\ pc \in {"done", "raised"}) =>
        /\ written = ret.written
        /\ report = ret.report

\* C12, reached: both runs audited two services and wrote both reports,
\* one row scanned and one row of a service whose details lookup failed.
C12_Witness ==
    /\ ret # None
    /\ pc = "done"
    /\ written = <<TRUE, TRUE>>
    /\ Len(report[2]) = 2
    /\ report[2][1].version = <<"3">>
    /\ report[2][2].version = <<"Unknown">>
    /\ ret.report[2] = report[2]

\* positions a < b of a text with one or more symbols between them, all of
\* them whitespace
SpaceBetween(text, a, b) ==
    b > a + 1 /\ \A j \in (a + 1)..(b - 1) : text[j] \in {" ", "\t", "\n"}

\* the text holds pragma, optional_param, client_challenge_enabled and true
\* in that order, in any case, with whitespace only between one and the next
ContainsDirective(text) ==
    \E a \in 1..Len(text) :
        /\ Lower(text[a]) \in {"pragma", "xpragma"}
        /\ \E b \in (a + 2)..Len(text) :
              /\ Lower(text[b]) = "optional_param"
              /\ SpaceBetween(text, a, b)
              /\ \E c \in (b + 2)..Len(text) :
                    /\ Lower(text[c]) = "client_challenge_enabled"
                    /\ SpaceBetween(text, b, c)
                    /\ \E d \in (c + 2)..Len(text) :
                          /\ Lower(text[d]) \in {"true", "trueish"}
                          /\ SpaceBetween(text, c, d)

\* C13: the two-step content test accepts a text exactly when it holds the
\* four tokens in order, in any case, separated by runs of whitespace, with
\* or without the terminator; a text that passes the exact test passes the
\* pattern test, and the two-step test gives what the pattern test gives.
C13_ContentTest ==
    pc = "returned" =>
        /\ (ret.two_step = "match") = ContainsDirective(arg.v)
        /\ ret.two_step \in {"match", "nomatch"}
        /\ ret.exact => ret.pattern
        /\ (ret.two_step = "match") = ret.pattern

\* C13, reached: a text in upper case with runs of whitespace and no
\* terminator failed the exact test and was accepted by the pattern.
C13_Witness ==
    /\ pc = "returned"
    /\ arg = Str(<<"PRAGMA", " ", "\n", "OPTIONAL_PARAM", "\t",
                   "client_challenge_enabled", " ", "TRUE">>)
    /\ ~ret.exact
    /\ ret.pattern
    /\ ret.two_step = "match"

\* the requests at positions i < j of the history belong to one processing
\* of one service
SameProcessing(i, j) ==
    /\ log[i].sid = log[j].sid
    /\ log[i].pass = log[j].pass
    /\ \A k \in (i + 1)..j : log[k].ep # "details"

\* C14: the listing is requested before the compiled blob; after a listing
\* with a matching unit the row says True and the compiled blob is not
\* requested; after any other listing (no match, empty, malformed, failed)
\* the compiled blob is requested next; a row of a scanned service says
\* False only after both requests.
C14_TwoTier ==
    /\ \A j \in 1..Len(log) :
          log[j].ep = "generated_vcl" =>
              /\ j > 1
              /\ log[j - 1].ep = "vcl"
              /\ log[j - 1].ver = log[j].ver
              /\ SameProcessing(j - 1, j)
    /\ (log # <<>> /\ log[Len(log)].ep = "vcl") =>
          LET rows == report[log[Len(log)].pass]
          IN IF ListingHasDirective(last_out)
             THEN /\ pc \in {"loop", "done"}
                  /\ Len(rows) >= 1
                  /\ rows[Len(rows)].id = log[Len(log)].sid
                  /\ rows[Len(rows)].challenge = "True"
             ELSE pc = "generated"
    /\ \A f \in 1..2 : \A k \in 1..Len(WrittenRows(f)) :
          LET row == WrittenRows(f)[k]
          IN (row.challenge = "False" /\ row.waf # NoActiveVersion) =>
                \E i \in 1..Len(log) : \E j \in 1..Len(log) :
                    /\ i < j
                    /\ log[i].ep = "vcl"
                    /\ log[j].ep = "generated_vcl"
                    /\ log[i].sid = row.id
                    /\ log[i].pass = f
                    /\ SameProcessing(i, j)

\* the details requests issued for report file f, in order
DetailsRequests(f) ==
    SelectSeq(log, LAMBDA e : e.ep = "details" /\ e.pass = f)

\* a service is being processed for report file f: its details were
\* requested and its row is not written
InProgress(f) == fileIdx = f /\ pc \in {"snippet", "vcl", "generated", "raised"}

\* C15: every page request precedes every request for a service; a request
\* for a service follows the request before it of the same service in the
\* order details, snippet, listing, compiled blob, and a details request
\* follows only a completed processing; when a request is issued, every
\* service processed before has its row in the report, in processing order.
C15_Sequential ==
    /\ pc = "get_services" => \A j \in 1..Len(log) : log[j].ep = "services"
    /\ \A j \in 2..Len(log) :
          LET e == log[j]
              d == log[j - 1]
          IN CASE e.ep = "services" -> d.ep = "services" /\ d.page + 1 = e.page
               [] e.ep = "details" ->
                     /\ d.ep \in {"services", "details", "vcl", "generated_vcl"}
                     /\ d.pass <= e.pass
                     /\ d.sid # e.sid \/ d.pass < e.pass
               [] e.ep = "snippet" ->
                     d.ep = "details" /\ d.sid = e.sid /\ d.pass = e.pass
               [] e.ep = "vcl" ->
                     /\ d.ep = "snippet"
                     /\ d.sid = e.sid /\ d.pass = e.pass /\ d.ver = e.ver
               [] e.ep = "generated_vcl" ->
                     /\ d.ep = "vcl"
                     /\ d.sid = e.sid /\ d.pass = e.pass /\ d.ver = e.ver
               [] OTHER -> FALSE
    /\ \A f \in 1..2 :
          LET reqs == DetailsRequests(f)
              rows == WrittenRows(f)
          IN /\ Len(reqs) = Len(rows) + (IF InProgress(f) THEN 1 ELSE 0)
             /\ \A k \in 1..Len(rows) : rows[k].id = reqs[k].sid

\* C15, reached: two services were processed for the second report, the
\* first up to the compiled blob, and both rows are written.
C15_Witness ==
    /\ pc = "done"
    /\ Len(WrittenRows(2)) = 2
    /\ \E i \in 1..Len(log) : \E j \in 1..Len(log) :
          /\ i < j
          /\ log[i].ep = "generated_vcl" /\ log[i].pass = 2 /\ log[i].sid = Num(1)
          /\ log[j].ep = "details" /\ log[j].pass = 2 /\ log[j].sid = Num(3)

\* the details lookup was answered 200 with a mapping that is not empty
DetailsFetched(out) ==
    /\ CodeOf(out) = 200
    /\ out.body.t = "dict"
    /\ DOMAIN out.body.v # {}

\* the details lookup failed: no response, a status other than 200, or no
\* payload
DetailsFailed(out) ==
    \/ CodeOf(out) # 200
    \/ out.body \in {None, EmptyDict, List(<<>>)}

C17_Terminates ==
    /\ [](LET reqs == PageRequests(log)
          IN /\ Len(reqs) <= 5
             /\ \A i \in 1..Len(reqs) : reqs[i].page = i
             /\ Len(all_services) <= 5 * PageSize
             /\ pc = "get_services" =>
                   /\ Len(reqs) = page - 1
                   /\ Len(all_services) = (page - 1) * PageSize
                   /\ Len(all_services) < total_expected)
    /\ [][pc = "get_services" =>
            Len(PageRequests(log')) = Len(PageRequests(log)) + 1]_vars
    /\ <>(pc # "get_services")

\* C17, reached: five full pages were fetched from an account of more
\* services, and get_services returned them without a sixth request.
C17_Witness ==
    /\ pc = "main"
    /\ accountSize > 5 * PageSize
    /\ Len(PageRequests(log)) = 5
    /\ Len(all_services) = 5 * PageSize
    /\ page = 6

\* C18: when get_services returned no service, main ends with no request
\* for a service, no report file opened, and the fixed-name report of the
\* earlier run as it was.
C18_EmptyEnumeration ==
    /\ []((pc \in {"main", "done"} /\ all_services = <<>>) =>
            /\ written = <<FALSE, FALSE>>
            /\ report = <<<<>>, <<OldRow>>>>
            /\ \A i \in 1..Len(log) : log[i].ep = "services")
    /\ [][(pc = "main" /\ all_services = <<>>) =>
            /\ pc' = "done"
            /\ UNCHANGED <<report, written, log, all_services>>]_vars
    /\ [][pc = "done" => UNCHANGED vars]_vars

\* C18, reached: the first page request failed for an account that has a
\* service, and main ended with the earlier report in place.
C18_Witness ==
    /\ pc = "done"
    /\ all_services = <<>>
    /\ page_failed
    /\ accountSize >= 1
    /\ report[2] = <<OldRow>>
    /\ ~written[2]

====
